---------------------------- MODULE Spec2Model ----------------------------
(***************************************************************************)
(* Model of package b32 (src/b32.go): the two lookup tables encMap and     *)
(* decMap, the package initialiser, and EncodeUint64 / DecodeUint64 with   *)
(* their string wrappers.                                                  *)
(*                                                                         *)
(* A uint64 is the set of its set bit positions, a subset of 0..63: OR is  *)
(* union, AND is intersection, a shift moves the positions and drops those *)
(* that leave 0..63 (the 64-bit width).  A byte is a number in 0..255.  A  *)
(* []byte or array is a function from 0..len-1; a Go string is a sequence  *)
(* of bytes.                                                               *)
(***************************************************************************)
EXTENDS Integers, Sequences, FiniteSets, TLC

VARIABLES encMap, decMap, pc, call, g, bufs

vars == <<encMap, decMap, pc, call, g, bufs>>

-----------------------------------------------------------------------------
(* Bounds of the model *)

\* Width, in bits, of the patterns slid over the 64 bit positions of n.
WinBits == 5
\* Longest buffer handed to a call.
MaxLen == 14
\* Goroutines calling the codec at the same time.
NumGoroutines == 2

-----------------------------------------------------------------------------
(* Machine arithmetic *)

Pow2(k) == 2 ^ k

\* uint64(b) for a byte b, and the bits of any small number.
Bits(b) == {i \in 0..7 : (b \div Pow2(i)) % 2 = 1}

RECURSIVE SumBits(_)
SumBits(s) ==
    IF s = {} THEN 0
    ELSE LET i == CHOOSE j \in s : TRUE IN Pow2(i) + SumBits(s \ {i})

\* The number a bit set of at most 8 bits stands for.
ToInt(s) == SumBits(s)

\* byte(x): conversion of an int to uint8.
ToByte(x) == x % 256

Shl(x, k) == {i + k : i \in {j \in x : j + k <= 63}}
Shr(x, k) == {i - k : i \in {j \in x : j >= k}}
And(x, mask) == x \cap Bits(mask)

\* a | b on bytes.
ByteOr(a, b) == ToInt(Bits(a) \cup Bits(b))
\* a & b on bytes.
ByteAnd(a, b) == ToInt(Bits(a) \cap Bits(b))

\* The uint64 written as eight hexadecimal bytes, most significant first.
U64(h) == UNION {Shl(Bits(h[k]), 8 * (8 - k)) : k \in 1..8}

-----------------------------------------------------------------------------
(* Characters and strings *)

Letters == <<"a", "b", "c", "d", "e", "f", "g", "h", "i", "j", "k", "l", "m",
             "n", "o", "p", "q", "r", "s", "t", "u", "v", "w", "x", "y", "z">>
Digits == <<"0", "1", "2", "3", "4", "5", "6", "7", "8", "9">>

\* The byte of a character literal.
Chr(c) ==
    IF \E i \in 1..26 : Letters[i] = c
    THEN 96 + (CHOOSE i \in 1..26 : Letters[i] = c)
    ELSE 47 + (CHOOSE i \in 1..10 : Digits[i] = c)

\* The Go string of a sequence of characters.
Str(cs) == [i \in 1..Len(cs) |-> Chr(cs[i])]

\* []byte(s) and string(b).
BytesOf(s) == [i \in 0..(Len(s) - 1) |-> s[i + 1]]
StringOf(b) == [i \in 1..Cardinality(DOMAIN b) |-> b[i - 1]]

\* Fault: the "extended hex" alphabet of RFC 4648 in place of the standard one.
StdEncodingHex ==
    Str(<<"0", "1", "2", "3", "4", "5", "6", "7", "8", "9", "a", "b", "c",
          "d", "e", "f", "g", "h", "i", "j", "k", "l", "m", "n", "o", "p",
          "q", "r", "s", "t", "u", "v">>)

StdEncoding ==
    Str(<<"a", "b", "c", "d", "e", "f", "g", "h", "i", "j", "k", "l", "m",
          "n", "o", "p", "q", "r", "s", "t", "u", "v", "w", "x", "y", "z",
          "2", "3", "4", "5", "6", "7">>)

-----------------------------------------------------------------------------
(* Package initialisation *)

\* var encMap [32]byte; var decMap [256]byte: zero values.
ZeroEncMap == [i \in 0..31 |-> 0]
ZeroDecMap == [i \in 0..255 |-> 0]

\* copy(dst, src): copies min(len(dst), len(src)) bytes.
Copy(dst, src) ==
    [i \in DOMAIN dst |-> IF i + 1 <= Len(src) THEN src[i + 1] ELSE dst[i]]

\* bytes.IndexByte(b, c): the first index of c in b, or -1.
IndexByte(b, c) ==
    IF \E i \in DOMAIN b : b[i] = c
    THEN CHOOSE i \in DOMAIN b : b[i] = c /\ \A j \in DOMAIN b : b[j] = c => i <= j
    ELSE -1

\* Fault: a byte outside the alphabet is left at the zero value.
DecEntryZero(enc, i) == IF IndexByte(enc, i) < 0 THEN 0 ELSE IndexByte(enc, i)

\* The value init stores in decMap[i], given the filled encMap.
DecEntry(enc, i) == ToByte(IndexByte(enc, i))

-----------------------------------------------------------------------------
(* EncodeUint64 *)

\* The table index each statement of EncodeUint64 computes for dst[pos].
EncIndex(n, pos) ==
    CASE pos = 12 -> Shl(And(n, \hf), 1)
      [] pos = 11 -> And(Shr(n, 4), \h1f)
      [] pos = 10 -> And(Shr(n, 9), \h1f)
      [] pos = 9 -> And(Shr(n, 14), \h1f)
      [] pos = 8 -> And(Shr(n, 19), \h1f)
      [] pos = 7 -> And(Shr(n, 24), \h1f)
      [] pos = 6 -> And(Shr(n, 29), \h1f)
      [] pos = 5 -> And(Shr(n, 34), \h1f)
      [] pos = 4 -> And(Shr(n, 39), \h1f)
      [] pos = 3 -> And(Shr(n, 44), \h1f)
      [] pos = 2 -> And(Shr(n, 49), \h1f)
      [] pos = 1 -> And(Shr(n, 54), \h1f)
      [] pos = 0 -> Shr(n, 59)

\* Fault: the assignments run from dst[0] up.
EncOrderAscending == <<0, 1, 2, 3, 4, 5, 6, 7, 8, 9, 10, 11, 12>>

\* The positions of dst in the order the statements assign them.
EncOrder == <<12, 11, 10, 9, 8, 7, 6, 5, 4, 3, 2, 1, 0>>

\* Fault: the last group is the low five bits of n, not the low four shifted.
EncStmtNoPad(n, dst, pos) ==
    LET idx == IF pos = 12 THEN And(n, \h1f) ELSE EncIndex(n, pos)
    IN  IF idx \subseteq 0..4 /\ pos \in DOMAIN dst
        THEN [dst |-> [dst EXCEPT ![pos] = encMap[ToInt(idx)]], panicked |-> FALSE]
        ELSE [dst |-> dst, panicked |-> TRUE]

\* Fault: the groups are written least significant first.
EncStmtReversed(n, dst, pos) ==
    LET idx == EncIndex(n, pos)
    IN  IF idx \subseteq 0..4 /\ pos \in DOMAIN dst
        THEN [dst |-> [dst EXCEPT ![12 - pos] = encMap[ToInt(idx)]], panicked |-> FALSE]
        ELSE [dst |-> dst, panicked |-> TRUE]

\* Fault: the unmasked top group is n>>58, six bits wide.
EncStmtTop58(n, dst, pos) ==
    LET idx == IF pos = 0 THEN Shr(n, 58) ELSE EncIndex(n, pos)
    IN  IF idx \subseteq 0..4 /\ pos \in DOMAIN dst
        THEN [dst |-> [dst EXCEPT ![pos] = encMap[ToInt(idx)]], panicked |-> FALSE]
        ELSE [dst |-> dst, panicked |-> TRUE]

\* One assignment dst[pos] = encMap[idx]: an index outside the array or the
\* slice panics and leaves dst as it is.
EncStmt(n, dst, pos) ==
    LET idx == EncIndex(n, pos)
    IN  IF idx \subseteq 0..4 /\ pos \in DOMAIN dst
        THEN [dst |-> [dst EXCEPT ![pos] = encMap[ToInt(idx)]], panicked |-> FALSE]
        ELSE [dst |-> dst, panicked |-> TRUE]

RECURSIVE EncRun(_, _, _)
EncRun(n, dst, k) ==
    IF k > Len(EncOrder)
    THEN [dst |-> dst, panicked |-> FALSE]
    ELSE LET r == EncStmt(n, dst, EncOrder[k])
         IN  IF r.panicked THEN r ELSE EncRun(n, r.dst, k + 1)

EncodeUint64(n, dst) == EncRun(n, dst, 1)

EncodeUint64ToString(n) ==
    LET buf == [i \in 0..12 |-> 0]
        r == EncodeUint64(n, buf)
    IN  [ret |-> StringOf(r.dst), panicked |-> r.panicked]

-----------------------------------------------------------------------------
(* DecodeUint64 *)

\* The positions of src the expression for n reads.
DecReads == {12, 11, 10, 9, 8, 7, 6, 5, 4, 3, 2, 1, 0}

\* Fault: the two repeated reads stand where src[7] and src[6] should.
ValidReadsSkip == <<12, 11, 10, 9, 8, 9, 8, 5, 4, 3, 2, 1, 0>>

\* The positions of src the expression for m reads, in order.
ValidReads == <<12, 11, 10, 9, 8, 9, 8, 7, 6, 5, 4, 3, 2, 1, 0>>

\* n: the lookups, each shifted to its place, ORed into a uint64.
DecValue(src) ==
    UNION { Shr(Bits(decMap[src[12]]), 1),
            Shl(Bits(decMap[src[11]]), 4),
            Shl(Bits(decMap[src[10]]), 9),
            Shl(Bits(decMap[src[9]]), 14),
            Shl(Bits(decMap[src[8]]), 19),
            Shl(Bits(decMap[src[7]]), 24),
            Shl(Bits(decMap[src[6]]), 29),
            Shl(Bits(decMap[src[5]]), 34),
            Shl(Bits(decMap[src[4]]), 39),
            Shl(Bits(decMap[src[3]]), 44),
            Shl(Bits(decMap[src[2]]), 49),
            Shl(Bits(decMap[src[1]]), 54),
            Shl(Bits(decMap[src[0]]), 59) }

RECURSIVE OrReads(_, _, _)
OrReads(src, reads, k) ==
    IF k > Len(reads) THEN 0
    ELSE ByteOr(decMap[src[reads[k]]], OrReads(src, reads, k + 1))

\* m: the raw lookups ORed into a byte.
DecMask(src) == OrReads(src, ValidReads, 1)

\* Fault: the decoder also rejects an input whose discarded bit is set.
DecodeUint64Strict(src) ==
    IF \E p \in DecReads : p \notin DOMAIN src
    THEN [val |-> {}, valid |-> FALSE, panicked |-> TRUE]
    ELSE [val |-> DecValue(src),
          valid |-> ByteAnd(DecMask(src), \he0) = 0 /\ decMap[src[12]] % 2 = 0,
          panicked |-> FALSE]

\* Fault: the decoder panics on any length other than 13.
DecodeUint64ExactLen(src) ==
    IF DOMAIN src # 0..12
    THEN [val |-> {}, valid |-> FALSE, panicked |-> TRUE]
    ELSE [val |-> DecValue(src),
          valid |-> ByteAnd(DecMask(src), \he0) = 0,
          panicked |-> FALSE]

DecodeUint64(src) ==
    IF \E p \in DecReads \cup {ValidReads[k] : k \in 1..Len(ValidReads)} :
           p \notin DOMAIN src
    THEN [val |-> {}, valid |-> FALSE, panicked |-> TRUE]
    ELSE [val |-> DecValue(src),
          valid |-> ByteAnd(DecMask(src), \he0) = 0,
          panicked |-> FALSE]

DecodeUint64FromString(s) == DecodeUint64(BytesOf(s))

-----------------------------------------------------------------------------
(* The reference codec of the tests: encoding/base32 without padding over   *)
(* the 8 big-endian bytes of n                                              *)

\* binary.BigEndian.PutUint64: byte k holds bits 63-8k .. 56-8k of n.
PutUint64(n) == [k \in 0..7 |-> ToInt(Shr(n, 56 - 8 * k) \cap 0..7)]

\* binary.BigEndian.Uint64.
Uint64Of(buf) == UNION {Shl(Bits(buf[k]), 56 - 8 * k) : k \in 0..7}

\* Bit j (0 the first, most significant of byte 0) of a byte string, 0 past
\* its end: the pad bits of the last group.
BitAt(buf, j) ==
    IF j \div 8 \in DOMAIN buf
    THEN (buf[j \div 8] \div Pow2(7 - (j % 8))) % 2
    ELSE 0

\* The value of the g-th group of five bits.
Group5(buf, gi) ==
    16 * BitAt(buf, 5 * gi) + 8 * BitAt(buf, 5 * gi + 1) + 4 * BitAt(buf, 5 * gi + 2)
        + 2 * BitAt(buf, 5 * gi + 3) + BitAt(buf, 5 * gi + 4)

\* stdlibEncode: thirteen symbols for eight bytes.
stdlibEncode(n) ==
    LET buf == PutUint64(n)
    IN  [gi \in 0..12 |-> StdEncoding[Group5(buf, gi) + 1]]

\* The alphabet index of a symbol, or -1.
SymbolIndex(c) ==
    IF \E i \in 1..Len(StdEncoding) : StdEncoding[i] = c
    THEN (CHOOSE i \in 1..Len(StdEncoding) : StdEncoding[i] = c) - 1
    ELSE -1

\* stdlibDecode: the eight bytes held by the first 64 of the 65 bits the
\* thirteen symbols carry, read as a big-endian integer; err when a symbol is
\* outside the alphabet.
stdlibDecode(src) ==
    LET bad == \E i \in 0..12 : SymbolIndex(src[i]) < 0
        bit(j) == (SymbolIndex(src[j \div 5]) \div Pow2(4 - (j % 5))) % 2
        buf == [k \in 0..7 |->
                  128 * bit(8 * k) + 64 * bit(8 * k + 1) + 32 * bit(8 * k + 2)
                      + 16 * bit(8 * k + 3) + 8 * bit(8 * k + 4) + 4 * bit(8 * k + 5)
                      + 2 * bit(8 * k + 6) + bit(8 * k + 7)]
    IN  [val |-> IF bad THEN {} ELSE Uint64Of(buf), err |-> bad]

-----------------------------------------------------------------------------
(* Inputs *)

AllOnes == 0..63

\* testVectors: the integers and their encodings.
testVectors ==
    << [in |-> U64(<<\h00, \h00, \h00, \h00, \h00, \h00, \h00, \h00>>),
        b32encoded |-> Str(<<"a","a","a","a","a","a","a","a","a","a","a","a","a">>)],
       [in |-> U64(<<\h66, \h00, \h00, \h00, \h00, \h00, \h00, \h00>>),
        b32encoded |-> Str(<<"m","y","a","a","a","a","a","a","a","a","a","a","a">>)],
       [in |-> U64(<<\h66, \h6f, \h00, \h00, \h00, \h00, \h00, \h00>>),
        b32encoded |-> Str(<<"m","z","x","q","a","a","a","a","a","a","a","a","a">>)],
       [in |-> U64(<<\h66, \h6f, \h6f, \h00, \h00, \h00, \h00, \h00>>),
        b32encoded |-> Str(<<"m","z","x","w","6","a","a","a","a","a","a","a","a">>)],
       [in |-> U64(<<\h66, \h6f, \h6f, \h62, \h00, \h00, \h00, \h00>>),
        b32encoded |-> Str(<<"m","z","x","w","6","y","q","a","a","a","a","a","a">>)],
       [in |-> U64(<<\h66, \h6f, \h6f, \h62, \h61, \h00, \h00, \h00>>),
        b32encoded |-> Str(<<"m","z","x","w","6","y","t","b","a","a","a","a","a">>)],
       [in |-> U64(<<\h66, \h6f, \h6f, \h62, \h61, \h72, \h00, \h00>>),
        b32encoded |-> Str(<<"m","z","x","w","6","y","t","b","o","i","a","a","a">>)],
       [in |-> U64(<<\h73, \h75, \h72, \h65, \h2e, \h00, \h00, \h00>>),
        b32encoded |-> Str(<<"o","n","2","x","e","z","j","o","a","a","a","a","a">>)],
       [in |-> U64(<<\h73, \h75, \h72, \h65, \h00, \h00, \h00, \h00>>),
        b32encoded |-> Str(<<"o","n","2","x","e","z","i","a","a","a","a","a","a">>)],
       [in |-> U64(<<\h73, \h75, \h72, \h00, \h00, \h00, \h00, \h00>>),
        b32encoded |-> Str(<<"o","n","2","x","e","a","a","a","a","a","a","a","a">>)],
       [in |-> U64(<<\h73, \h75, \h00, \h00, \h00, \h00, \h00, \h00>>),
        b32encoded |-> Str(<<"o","n","2","q","a","a","a","a","a","a","a","a","a">>)],
       [in |-> U64(<<\h6c, \h65, \h61, \h73, \h75, \h72, \h65, \h2e>>),
        b32encoded |-> Str(<<"n","r","s","w","c","4","3","v","o","j","s","s","4">>)],
       [in |-> U64(<<\h65, \h61, \h73, \h75, \h72, \h65, \h2e, \h00>>),
        b32encoded |-> Str(<<"m","v","q","x","g","5","l","s","m","u","x","a","a">>)],
       [in |-> U64(<<\h61, \h73, \h75, \h72, \h65, \h2e, \h00, \h00>>),
        b32encoded |-> Str(<<"m","f","z","x","k","4","t","f","f","y","a","a","a">>)],
       [in |-> U64(<<\hff, \hff, \hff, \hff, \hff, \hff, \hff, \hff>>),
        b32encoded |-> Str(<<"7","7","7","7","7","7","7","7","7","7","7","7","6">>)],
       [in |-> U64(<<\hff, \hff, \hff, \hff, \hff, \hff, \hff, \hfe>>),
        b32encoded |-> Str(<<"7","7","7","7","7","7","7","7","7","7","7","7","4">>)],
       [in |-> U64(<<\h01, \hff, \hff, \hff, \hff, \hff, \hff, \hfa>>),
        b32encoded |-> Str(<<"a","h","7","7","7","7","7","7","7","7","7","7","u">>)],
       [in |-> U64(<<\h01, \h02, \h03, \h04, \h05, \h06, \h07, \h08>>),
        b32encoded |-> Str(<<"a","e","b","a","g","b","a","f","a","y","d","q","q">>)],
       [in |-> U64(<<\h12, \h34, \h56, \h78, \h9a, \hbc, \hcd, \hef>>),
        b32encoded |-> Str(<<"c","i","2","f","m","6","e","2","x","t","g","6","6">>)],
       [in |-> U64(<<\h88, \h77, \h66, \h55, \h44, \h33, \h22, \h11>>),
        b32encoded |-> Str(<<"r","b","3","w","m","v","k","e","g","m","r","b","c">>)] >>

\* corruptInput of TestDecodeCorruptInput.
corruptInput ==
    { Str(<<"1","2","3","4","5","6","7","8","9","0","1","2","3">>),
      Str(<<"c","a","a","z","b","a","y","w","x","a","m","m","1">>),
      Str(<<"a","a","a","a","a","a","a","a","a","a","a","8","a">>),
      Str(<<"k","b","e","z","v","y","s","g","l","a","9","a","u">>),
      Str(<<"c","m","y","z","z","w","a","x","y","0","a","a","a">>),
      Str(<<"r","b","9","w","m","v","k","e","g","m","r","b","c">>) }

TestInputs == {testVectors[i].in : i \in 1..Len(testVectors)}
TestStrings == {testVectors[i].b32encoded : i \in 1..Len(testVectors)}

\* Every pattern of WinBits bits at every place of the 64, and its complement.
Windows == {Shl(Bits(p), s) : p \in 0..(Pow2(WinBits) - 1), s \in 0..63}
EncInputs == TestInputs \cup Windows \cup {AllOnes \ w : w \in Windows}

\* A caller's buffer of len bytes, each holding fill.
Buffer(len, fill) == [i \in 0..(len - 1) |-> fill]
FillBytes == {0, 255}

\* The string s cut or extended to len bytes.
Resize(s, len, fill) == [i \in 1..len |-> IF i <= Len(s) THEN s[i] ELSE fill]

\* s with the byte at (0-based) position p replaced by c.
Subst(s, p, c) == [s EXCEPT ![p + 1] = c]

\* Bytes around the edges of the alphabet's two ranges, and the extremes.
SampleBytes == {0, 49, 55, 56, 65, 97, 123, 255}

\* Thirteen-byte inputs of DecodeUint64: the test strings, the corrupt ones,
\* two base strings with one byte replaced by any byte, and with two bytes
\* replaced by sample bytes.
DecBases == {testVectors[1].b32encoded, testVectors[19].b32encoded}
DecInputs13 ==
    TestStrings \cup corruptInput
    \cup {Subst(s, p, c) : s \in DecBases, p \in 0..12, c \in 0..255}
    \cup {Subst(Subst(s, pq[1], cd[1]), pq[2], cd[2]) :
            s \in DecBases,
            pq \in {x \in (0..12) \X (0..12) : x[1] < x[2]},
            cd \in SampleBytes \X SampleBytes}

\* Inputs of another length: the test strings cut or extended.
DecInputsLen ==
    {Resize(s, len, c) : s \in TestStrings, len \in 0..MaxLen, c \in {0, 97}}

DecInputs == DecInputs13 \cup DecInputsLen

-----------------------------------------------------------------------------
(* The program: package initialisation, then calls from a single caller *)

\* No call made, or the last call returned to.
NoCall ==
    [op |-> "none", n |-> {}, in |-> <<>>, out |-> <<>>, val |-> {},
     valid |-> FALSE, panicked |-> FALSE]

Init ==
    /\ encMap = ZeroEncMap
    /\ decMap = ZeroDecMap
    /\ pc = "boot"
    /\ call = NoCall
    /\ g = <<>>
    /\ bufs = <<>>

\* func init(): fills encMap from the alphabet, then decMap by inverting it.
init ==
    /\ pc = "boot"
    /\ LET enc == Copy(encMap, StdEncoding)
       IN  /\ encMap' = enc
           /\ decMap' = [i \in 0..255 |-> DecEntry(enc, i)]
    /\ pc' = "idle"
    /\ UNCHANGED <<call, g, bufs>>

\* The calls EncodeUint64(n, dst) the caller makes: any n into a 13-byte
\* zeroed buffer, the test integers into buffers of every length.
EncCalls ==
    {<<n, Buffer(13, 0)>> : n \in EncInputs}
    \cup {<<n, Buffer(len, c)>> : n \in TestInputs, len \in 0..MaxLen, c \in FillBytes}

CallEncodeUint64 ==
    /\ pc = "idle"
    /\ \E a \in EncCalls :
         LET r == EncodeUint64(a[1], a[2])
         IN  call' = [NoCall EXCEPT !.op = "EncodeUint64", !.n = a[1], !.in = a[2],
                                    !.out = r.dst, !.panicked = r.panicked]
    /\ pc' = "returned"
    /\ UNCHANGED <<encMap, decMap, g, bufs>>

CallEncodeUint64ToString ==
    /\ pc = "idle"
    /\ \E n \in EncInputs :
         LET r == EncodeUint64ToString(n)
         IN  call' = [NoCall EXCEPT !.op = "EncodeUint64ToString", !.n = n,
                                    !.out = r.ret, !.panicked = r.panicked]
    /\ pc' = "returned"
    /\ UNCHANGED <<encMap, decMap, g, bufs>>

CallDecodeUint64 ==
    /\ pc = "idle"
    /\ \E s \in DecInputs :
         LET src == BytesOf(s)
             r == DecodeUint64(src)
         IN  call' = [NoCall EXCEPT !.op = "DecodeUint64", !.in = src, !.val = r.val,
                                    !.valid = r.valid, !.panicked = r.panicked]
    /\ pc' = "returned"
    /\ UNCHANGED <<encMap, decMap, g, bufs>>

CallDecodeUint64FromString ==
    /\ pc = "idle"
    /\ \E s \in TestStrings \cup corruptInput \cup DecInputsLen :
         LET r == DecodeUint64FromString(s)
         IN  call' = [NoCall EXCEPT !.op = "DecodeUint64FromString", !.in = s,
                                    !.val = r.val, !.valid = r.valid,
                                    !.panicked = r.panicked]
    /\ pc' = "returned"
    /\ UNCHANGED <<encMap, decMap, g, bufs>>

\* The caller decodes what it has just encoded (FuzzEncodeDecode): the buffer
\* with DecodeUint64, the string with DecodeUint64FromString.
DecodeEncoded ==
    /\ pc = "returned"
    /\ call.op \in {"EncodeUint64", "EncodeUint64ToString"}
    /\ ~call.panicked
    /\ LET r == IF call.op = "EncodeUint64"
                THEN DecodeUint64(call.out)
                ELSE DecodeUint64FromString(call.out)
       IN  call' = [call EXCEPT !.op = "Decode(" \o call.op \o ")", !.val = r.val,
                                !.valid = r.valid, !.panicked = r.panicked]
    /\ UNCHANGED <<encMap, decMap, pc, g, bufs>>

\* The caller encodes the value it has just decoded into a fresh buffer.
EncodeDecoded ==
    /\ pc = "returned"
    /\ call.op = "DecodeUint64"
    /\ ~call.panicked /\ call.valid
    /\ LET r == EncodeUint64(call.val, Buffer(13, 0))
       IN  call' = [call EXCEPT !.op = "Encode(DecodeUint64)", !.n = call.val,
                                !.out = r.dst, !.panicked = r.panicked]
    /\ UNCHANGED <<encMap, decMap, pc, g, bufs>>

\* The caller is done with the result.
Return ==
    /\ pc = "returned"
    /\ pc' = "idle"
    /\ call' = NoCall
    /\ UNCHANGED <<encMap, decMap, g, bufs>>

Next ==
    \/ init
    \/ CallEncodeUint64
    \/ CallEncodeUint64ToString
    \/ CallDecodeUint64
    \/ CallDecodeUint64FromString
    \/ DecodeEncoded
    \/ EncodeDecoded
    \/ Return

Spec == Init /\ [][Next]_vars

-----------------------------------------------------------------------------
(* The program with several goroutines calling the codec at once.  A call   *)
(* of EncodeUint64ToString runs the thirteen assignments of EncodeUint64    *)
(* one memory access at a time on its buffer; a call of DecodeUint64        *)
(* evaluates n, then m.                                                     *)

Goroutines == 1..NumGoroutines

ConcInputs == {testVectors[18].in, testVectors[19].in}
ConcSrcs == {BytesOf(testVectors[20].b32encoded),
             BytesOf(Str(<<"r","b","9","w","m","v","k","e","g","m","r","b","c">>))}

Idle ==
    [st |-> "idle", op |-> "none", n |-> {}, src |-> <<>>, k |-> 0, val |-> {},
     valid |-> FALSE, ret |-> <<>>]

\* Fault: buf is a package-level variable, one for all calls.
BufShared(i) == 1

\* var buf [13]byte of EncodeUint64ToString: a local, one per call.
BufOf(i) == i

InitConc ==
    /\ encMap = ZeroEncMap
    /\ decMap = ZeroDecMap
    /\ pc = "boot"
    /\ call = NoCall
    /\ g = [i \in Goroutines |-> Idle]
    /\ bufs = [i \in Goroutines |-> Buffer(13, 0)]

\* EncodeUint64ToString(n) is entered: buf is zeroed.
GoEncode(i) ==
    /\ pc = "idle"
    /\ g[i].st = "idle"
    /\ \E n \in ConcInputs :
         g' = [g EXCEPT ![i] = [Idle EXCEPT !.st = "enc", !.op = "EncodeUint64ToString",
                                       !.n = n, !.k = 1]]
    /\ bufs' = [bufs EXCEPT ![BufOf(i)] = Buffer(13, 0)]
    /\ UNCHANGED <<encMap, decMap, pc, call>>

\* The k-th assignment of EncodeUint64 on the call's buffer.
EncStep(i) ==
    /\ g[i].st = "enc"
    /\ g[i].k <= Len(EncOrder)
    /\ LET r == EncStmt(g[i].n, bufs[BufOf(i)], EncOrder[g[i].k])
       IN  /\ bufs' = [bufs EXCEPT ![BufOf(i)] = r.dst]
           /\ g' = [g EXCEPT ![i].k = @ + 1,
                             ![i].st = IF r.panicked THEN "panicked" ELSE @]
    /\ UNCHANGED <<encMap, decMap, pc, call>>

\* return string(buf[:]): the string is a copy, and buf ends with the call.
EncReturn(i) ==
    /\ g[i].st = "enc"
    /\ g[i].k > Len(EncOrder)
    /\ g' = [g EXCEPT ![i].st = "done", ![i].k = 0,
                      ![i].ret = StringOf(bufs[BufOf(i)])]
    /\ bufs' = [bufs EXCEPT ![BufOf(i)] = Buffer(13, 0)]
    /\ UNCHANGED <<encMap, decMap, pc, call>>

\* DecodeUint64(src) is entered.
GoDecode(i) ==
    /\ pc = "idle"
    /\ g[i].st = "idle"
    /\ \E src \in ConcSrcs :
         g' = [g EXCEPT ![i] = [Idle EXCEPT !.st = "dec", !.op = "DecodeUint64",
                                       !.src = src, !.k = 1]]
    /\ UNCHANGED <<encMap, decMap, pc, call, bufs>>

\* n := ...
DecStepValue(i) ==
    /\ g[i].st = "dec"
    /\ g[i].k = 1
    /\ g' = [g EXCEPT ![i].k = 2, ![i].val = DecValue(g[i].src)]
    /\ UNCHANGED <<encMap, decMap, pc, call, bufs>>

\* m := ...; return n, m&0xe0 == 0.
DecStepMask(i) ==
    /\ g[i].st = "dec"
    /\ g[i].k = 2
    /\ g' = [g EXCEPT ![i].st = "done", ![i].k = 0,
                      ![i].valid = ByteAnd(DecMask(g[i].src), \he0) = 0]
    /\ UNCHANGED <<encMap, decMap, pc, call, bufs>>

\* The goroutine takes the result and is free for another call.
GoReturn(i) ==
    /\ g[i].st = "done"
    /\ g' = [g EXCEPT ![i] = Idle]
    /\ UNCHANGED <<encMap, decMap, pc, call, bufs>>

NextConc ==
    \/ init
    \/ \E i \in Goroutines : GoEncode(i)
    \/ \E i \in Goroutines : EncStep(i)
    \/ \E i \in Goroutines : EncReturn(i)
    \/ \E i \in Goroutines : GoDecode(i)
    \/ \E i \in Goroutines : DecStepValue(i)
    \/ \E i \in Goroutines : DecStepMask(i)
    \/ \E i \in Goroutines : GoReturn(i)

SpecConc == InitConc /\ [][NextConc]_vars

-----------------------------------------------------------------------------
(* Properties *)

\* The 32 symbols of the alphabet.
AlphabetSet == {StdEncoding[i] : i \in 1..Len(StdEncoding)}

DecodeOps == {"DecodeUint64", "DecodeUint64FromString"}

\* The bytes handed to the last call, as a slice.
InBytes == IF call.op = "DecodeUint64FromString" THEN BytesOf(call.in) ELSE call.in
InLen == Cardinality(DOMAIN InBytes)

\* The first thirteen bytes of a slice of at least thirteen.
First13(b) == [i \in 0..12 |-> b[i]]

\* The positions of the input that hold a byte outside the alphabet.
BadPositions == {p \in DOMAIN InBytes : InBytes[p] \notin AlphabetSet}

\* C1: decoding the thirteen bytes EncodeUint64 wrote for n, or the string
\* EncodeUint64ToString returned for n, gives back n with valid = true.
RoundTrip ==
    call.op \in {"Decode(EncodeUint64)", "Decode(EncodeUint64ToString)"}
        => ~call.panicked /\ call.valid /\ call.val = call.n

RoundTripWitness ==
    /\ call.op = "Decode(EncodeUint64)"
    /\ call.n = testVectors[19].in
    /\ call.val = testVectors[19].in
    /\ call.valid

\* C2: a 13-byte input with at least one byte outside the alphabet, at any
\* position, is decoded without a panic and with valid = false.
ValidationSound ==
    (call.op \in DecodeOps /\ InLen = 13 /\ BadPositions # {})
        => ~call.panicked /\ ~call.valid

ValidationSoundWitness ==
    /\ call.op = "DecodeUint64"
    /\ InLen = 13
    /\ BadPositions = {7}
    /\ ~call.valid

\* C3: the thirteen symbols EncodeUint64 writes for n are those of the
\* reference unpadded base32 encoder on the eight big-endian bytes of n, and
\* decoding them gives the value the reference decoder gives.
MatchStdlib ==
    /\ (call.op \in {"EncodeUint64", "Decode(EncodeUint64)"} /\ InLen >= 13)
           => ~call.panicked /\ First13(call.out) = stdlibEncode(call.n)
    /\ call.op = "EncodeUint64ToString"
           => call.out = StringOf(stdlibEncode(call.n))
    /\ call.op = "Decode(EncodeUint64)"
           => LET ref == stdlibDecode(First13(call.out))
              IN  call.val = ref.val /\ call.valid = ~ref.err

MatchStdlibWitness ==
    /\ call.op = "Decode(EncodeUint64)"
    /\ call.n = testVectors[12].in
    /\ call.out = stdlibEncode(testVectors[12].in)
    /\ call.val = stdlibDecode(call.out).val

\* The vectors the specification names: zero, all ones, all ones less one,
\* and 0x0102030405060708.
KnownVectors == {testVectors[1], testVectors[15], testVectors[16], testVectors[18]}

\* C4: EncodeUint64ToString maps each known integer to its known string, and
\* DecodeUint64FromString maps each known string back to the integer with
\* valid = true.
KnownVectorsHold ==
    \A v \in KnownVectors :
        /\ (call.op \in {"EncodeUint64ToString", "Decode(EncodeUint64ToString)"}
              /\ call.n = v.in) => call.out = v.b32encoded
        /\ (call.op = "DecodeUint64FromString" /\ call.in = v.b32encoded)
              => ~call.panicked /\ call.valid /\ call.val = v.in
        /\ (call.op = "Decode(EncodeUint64ToString)" /\ call.out = v.b32encoded)
              => ~call.panicked /\ call.valid /\ call.val = v.in

KnownVectorsWitness ==
    /\ call.op = "Decode(EncodeUint64ToString)"
    /\ call.n = testVectors[18].in
    /\ call.out = testVectors[18].b32encoded
    /\ call.val = testVectors[18].in

\* The input with the low bit of its last symbol's alphabet index cleared.
ClearLastBit(b) ==
    LET idx == SymbolIndex(b[12])
    IN  [b EXCEPT ![12] = StdEncoding[idx - (idx % 2) + 1]]

\* C5: a 13-symbol input is valid exactly when all its symbols are in the
\* alphabet, whether the last symbol's index is even or odd; its value is the
\* value of the input with the low bit of the last index cleared; encoding
\* the value gives the input back exactly when the last index is even, and
\* otherwise a string that differs from it in the last symbol only.
DiscardedBitNormalised ==
    (call.op \in {"DecodeUint64", "Encode(DecodeUint64)"} /\ InLen = 13)
        => /\ ~call.panicked
           /\ call.valid <=> BadPositions = {}
           /\ BadPositions = {}
                => call.val = DecodeUint64(ClearLastBit(InBytes)).val
           /\ call.op = "Encode(DecodeUint64)"
                => /\ call.out = ClearLastBit(call.in)
                   /\ \A p \in 0..11 : call.out[p] = call.in[p]
                   /\ call.out = call.in <=> SymbolIndex(call.in[12]) % 2 = 0

DiscardedBitWitness ==
    /\ call.op = "Encode(DecodeUint64)"
    /\ InLen = 13
    /\ SymbolIndex(call.in[12]) % 2 = 1
    /\ call.out # call.in
    /\ call.valid

\* C6: DecodeUint64 and DecodeUint64FromString on fewer than 13 bytes panic
\* and return nothing; EncodeUint64 into fewer than 13 slots panics and has
\* written no byte of dst.
ShortBufferPanics ==
    /\ (call.op \in DecodeOps /\ InLen < 13) => call.panicked
    /\ (call.op = "EncodeUint64" /\ InLen < 13)
           => call.panicked /\ call.out = call.in

ShortBufferWitness ==
    /\ call.op = "EncodeUint64"
    /\ InLen = 12
    /\ call.panicked
    /\ call.out = call.in

\* C7 as stated: an input whose length is not exactly 13 makes DecodeUint64
\* and DecodeUint64FromString fail fatally.
WrongLengthPanics ==
    (call.op \in DecodeOps /\ InLen # 13) => call.panicked

\* C7 as amended: the decoders panic exactly when the input has fewer than 13
\* bytes; on a longer input they return what they return for its first 13
\* bytes, and the bytes past the thirteenth are ignored.
LongInputTruncated ==
    call.op \in DecodeOps
        => /\ call.panicked <=> InLen < 13
           /\ InLen >= 13
                => LET r == DecodeUint64(First13(InBytes))
                   IN  call.val = r.val /\ call.valid = r.valid

LongInputWitness ==
    /\ call.op = "DecodeUint64FromString"
    /\ InLen = 14
    /\ ~call.panicked
    /\ call.valid
    /\ call.val = testVectors[18].in

\* C8: into a dst of at least 13 slots EncodeUint64 writes an alphabet symbol
\* at each of the positions 0..12 without a panic (every table index is in
\* 0..31), the last of them with an even index, and leaves the positions from
\* 13 on as they were.
EncodeFrame ==
    (call.op = "EncodeUint64" /\ InLen >= 13)
        => /\ ~call.panicked
           /\ DOMAIN call.out = DOMAIN call.in
           /\ \A pos \in 0..12 : EncIndex(call.n, pos) \subseteq 0..4
           /\ \A pos \in 0..12 : call.out[pos] \in AlphabetSet
           /\ SymbolIndex(call.out[12]) % 2 = 0
           /\ \A pos \in DOMAIN call.in : pos >= 13 => call.out[pos] = call.in[pos]

EncodeFrameWitness ==
    /\ call.op = "EncodeUint64"
    /\ InLen = 14
    /\ call.n = AllOnes
    /\ call.in[13] = 255
    /\ call.out[13] = 255
    /\ call.out[0] = StdEncoding[32]

\* The result of a finished call of goroutine i, in a state s of g.
AloneResult(r) ==
    IF r.op = "EncodeUint64ToString"
    THEN r.ret = EncodeUint64ToString(r.n).ret
    ELSE LET d == DecodeUint64(r.src)
         IN  r.val = d.val /\ r.valid = d.valid

\* C9: once init has completed no step of any interleaving of concurrent
\* calls writes encMap or decMap, no call panics, and every call ends with the
\* result it gives when run alone on the same input.
ConcurrencySafe ==
    [][ /\ pc = "idle" => (encMap' = encMap /\ decMap' = decMap)
        /\ \A i \in Goroutines :
              /\ g'[i].st # "panicked"
              /\ g'[i].st = "done" => AloneResult(g'[i]) ]_vars

ConcurrencyWitness ==
    /\ pc = "idle"
    /\ g[1].st = "enc" /\ g[1].k = 7 /\ g[1].n = testVectors[18].in
    /\ g[2].st = "enc" /\ g[2].k = 7 /\ g[2].n = testVectors[19].in

\* C10: after init the alphabet has 32 distinct symbols, encMap holds them in
\* order, decMap[encMap[i]] = i for every i in 0..31, and decMap is 0xff at
\* each of the other 224 bytes, so that a lookup has one of the bits 0xe0
\* set exactly for the bytes outside the alphabet.
TablesInverse ==
    pc # "boot"
        => /\ Len(StdEncoding) = 32
           /\ Cardinality(AlphabetSet) = 32
           /\ \A i \in 0..31 : encMap[i] = StdEncoding[i + 1] /\ decMap[encMap[i]] = i
           /\ Cardinality((0..255) \ AlphabetSet) = 224
           /\ \A b \in (0..255) \ AlphabetSet : decMap[b] = \hff
           /\ \A b \in 0..255 :
                 (ByteAnd(decMap[b], \he0) # 0) <=> b \notin AlphabetSet

TablesWitness ==
    /\ pc = "idle"
    /\ decMap[Chr("a")] = 0
    /\ decMap[Chr("7")] = 31
    /\ decMap[Chr("8")] = 255
    /\ encMap[31] = Chr("7")

====
